---- MODULE Spec2Model ----
(***************************************************************************)
(* Model of the particle swarm optimiser of src/pso.py (class              *)
(* ParticleSwarm, dataclass Particle) driven as src/main.py drives it,     *)
(* with the cost function of src/rastrigin.py.                             *)
(*                                                                         *)
(* Number representation.  Coordinates and velocities are floats in the    *)
(* program; here they are fixed-point integers k standing for k/2, so that *)
(* the grid holds both the minima (k even) and the ridges (k odd) of the   *)
(* Rastrigin function.  Costs are scaled by 4, which makes them exact      *)
(* integers on that grid.  A uniform draw from [0,1) is r/RDen for r in    *)
(* 0..RDen-1.  The result of the velocity formula is rounded to the grid.  *)
(* np.inf is the sentinel Inf, larger than every cost and coordinate.      *)
(***************************************************************************)
EXTENDS Integers, Sequences, FiniteSets, TLC

\* ---------------------------------------------------------------- bounds
MaxPopulation == 2   \* largest number of particles held by the swarm
MaxIter == 2         \* largest value of _iteration (sweeps started)
RDen == 2            \* resolution of the uniform draws from [0,1)

\* ------------------------------------------------------ program constants
Inf == 1000000       \* np.inf
InertiaNum == 4      \* _inertia = 0.8 = 4/5
InertiaDen == 5
CoeffNum == 41       \* _cognitive_coefficient = _social_coefficient = 2.05 = 41/20
CoeffDen == 20
DomainK == 10        \* |x| <= 5.12 on the half-unit grid

\* Pairs <<x_bounds, y_bounds>> a caller may configure, each bound being
\* <<lower, upper>> on the half-unit grid: equal bounds as in main.py,
\* different proper bounds, an inverted x bound and a degenerate y bound.
BoundsChoices ==
    { << <<0, 1>>, <<0, 1>> >>, << <<0, 1>>, <<-1, 0>> >>,
      << <<1, 0>>, <<0, 1>> >>, << <<0, 1>>, <<1, 1>> >> }

VARIABLES
    n_particles, x_bounds, y_bounds, plot,     \* constructor arguments
    particles,                                 \* self._particles
    global_best_z_value, global_best_position, \* self.global_best_*
    iteration,                                 \* self._iteration
    pc, idx,                                   \* position inside step_all_particles
    inSearch, remaining,                       \* position inside search
    lastOp, err, result,                       \* outcome of the last call
    plotLog,                                   \* functions of plot.py called so far
    searchN, sweepsDone,                       \* history: argument and sweeps of the last search
    gbSnapshot, gbWrites,                      \* history: global best the sweep started with, writes in this sweep
    minSeen, occupiedMin                       \* history: least cost evaluated (swarm / per particle)

vars == << n_particles, x_bounds, y_bounds, plot, particles,
           global_best_z_value, global_best_position, iteration, pc, idx,
           inSearch, remaining, lastOp, err, result, plotLog,
           searchN, sweepsDone, gbSnapshot, gbWrites, minSeen, occupiedMin >>

config == << n_particles, x_bounds, y_bounds, plot >>

\* ------------------------------------------------------------ arithmetic
Min2(a, b) == IF a < b THEN a ELSE b

Max2(a, b) == IF a > b THEN a ELSE b

\* nearest grid point of num/den (den > 0), halves rounded up
RoundDiv(num, den) == (2 * num + den) \div (2 * den)

\* ---------------------------------------------------------- rastrigin.py
InDomain(x, y) == -DomainK <= x /\ x <= DomainK /\ -DomainK <= y /\ y <= DomainK

\* 4 * (k/2)^2 - 4*10*cos(2*pi*k/2) + 4*10
RastriginTerm(k) == k * k + (IF k % 2 = 0 THEN 0 ELSE 80)

\* 4 * rastrigin_2d(x/2, y/2).  Every bound of BoundsChoices lies inside the
\* domain, so the assertions of lines 42-43 never fail on a modelled position.
rastrigin_2d(x, y) ==
    IF InDomain(x, y) THEN RastriginTerm(x) + RastriginTerm(y)
    ELSE "AssertionError"

cost_function(pos) == rastrigin_2d(pos[1], pos[2])

\* ------------------------------------------------------------------ pso.py
\* values random.uniform(low, high) can return; numpy does not reject
\* low >= high, it then draws between high and low.
Uniform(b) == Min2(b[1], b[2]) .. Max2(b[1], b[2])

\* values random.uniform(0, 1) can return, as numerators over RDen
UnitDraws == 0 .. (RDen - 1)

Particle(position, velocity, best_position, best_z_value) ==
    [ position |-> position, velocity |-> velocity,
      best_position |-> best_position, best_z_value |-> best_z_value ]

Init ==
    /\ n_particles \in 0 .. MaxPopulation
    /\ \E b \in BoundsChoices : x_bounds = b[1] /\ y_bounds = b[2]
    /\ plot \in BOOLEAN
    /\ particles = << >>
    /\ global_best_z_value = Inf
    /\ global_best_position = << Inf, Inf >>
    /\ iteration = 0
    /\ pc = "idle"
    /\ idx = 0
    /\ inSearch = FALSE
    /\ remaining = 0
    /\ lastOp = "none"
    /\ err = "none"
    /\ result = << >>
    /\ plotLog = {}
    /\ searchN = 0
    /\ sweepsDone = 0
    /\ gbSnapshot = << Inf, Inf >>
    /\ gbWrites = 0
    /\ minSeen = Inf
    /\ occupiedMin = << >>

Initialized == Len(particles) > 0

\* ---- initialize_swarm -------------------------------------------------
\* One pass of the loop body of initialize_swarm: d = <<px, py, vx, vy>> are
\* the four draws, every one of them taken from x_bounds.
InitParticle(d) ==
    Particle(<< d[1], d[2] >>, << d[3], d[4] >>, << d[1], d[2] >>,
             cost_function(<< d[1], d[2] >>))

\* variants of the comparison: "not worse" and "different"
ImprovesOnOrEqual(z, best) == z <= best

ImprovesOnDifferent(z, best) == z # best

\* strict comparison used for every "is this a new best" test
ImprovesOn(z, best) == z < best

\* the global best after the loop has run over draws[k..]
RECURSIVE InitGlobal(_, _, _, _)
InitGlobal(draws, k, gz, gp) ==
    IF k > Len(draws) THEN << gz, gp >>
    ELSE LET p == InitParticle(draws[k]) IN
         IF ImprovesOn(p.best_z_value, gz)
         THEN InitGlobal(draws, k + 1, p.best_z_value, p.position)
         ELSE InitGlobal(draws, k + 1, gz, gp)

RECURSIVE SeqMin(_, _)
SeqMin(zs, k) == IF k > Len(zs) THEN Inf ELSE Min2(zs[k], SeqMin(zs, k + 1))

BestValues(ps) == [ i \in 1 .. Len(ps) |-> ps[i].best_z_value ]

Idle == pc = "idle" /\ ~inSearch

initialize_swarm ==
    /\ Idle
    /\ Len(particles) + n_particles <= MaxPopulation
    /\ \E draws \in [ 1 .. n_particles ->
                      Uniform(x_bounds) \X Uniform(x_bounds)
                      \X Uniform(x_bounds) \X Uniform(x_bounds) ] :
         LET new == [ i \in 1 .. n_particles |-> InitParticle(draws[i]) ]
             g == InitGlobal(draws, 1, global_best_z_value, global_best_position)
         IN /\ particles' = particles \o new
            /\ global_best_z_value' = g[1]
            /\ global_best_position' = g[2]
            /\ minSeen' = Min2(minSeen, SeqMin(BestValues(new), 1))
            /\ occupiedMin' = occupiedMin \o BestValues(new)
    /\ plotLog' = IF plot THEN plotLog \cup { "plot_function" } ELSE plotLog
    /\ lastOp' = "initialize"
    /\ err' = "none"
    /\ result' = << >>
    /\ searchN' = 0
    /\ sweepsDone' = 0
    /\ UNCHANGED << config, iteration, pc, idx, inSearch, remaining,
                    gbSnapshot, gbWrites >>

\* ---- step_all_particles -----------------------------------------------
\* lines 80-86: new velocity in one dimension, rounded to the grid
NewVelocity(v, pos, pbest, gbest, r_cognitive, r_social) ==
    RoundDiv(  InertiaNum * CoeffDen * RDen * v
             + InertiaDen * CoeffNum * r_cognitive * (pbest - pos)
             + InertiaDen * CoeffNum * r_social * (gbest - pos),
             InertiaDen * CoeffDen * RDen)

\* lines 90-92: max with the lower bound, then min with the upper bound
Clamp(p, b) == Min2(Max2(p, b[1]), b[2])

\* the bounds list of line 72
Bounds == << x_bounds, y_bounds >>

\* lines 74-103 for one particle; r = <<rc1, rs1, rc2, rs2>>
StepParticle(p, gbest, r) ==
    LET nv == [ d \in 1 .. 2 |->
                  NewVelocity(p.velocity[d], p.position[d], p.best_position[d],
                              gbest[d], r[2 * d - 1], r[2 * d]) ]
        np == [ d \in 1 .. 2 |-> Clamp(p.position[d] + nv[d], Bounds[d]) ]
        z == cost_function(np)
    IN IF ImprovesOn(z, p.best_z_value)
       THEN Particle(np, nv, np, z)
       ELSE Particle(np, nv, p.best_position, p.best_z_value)

\* line 71 and the loop header: entered by a direct call or from search
BeginSweep ==
    /\ pc = "idle"
    /\ iteration < MaxIter
    /\ iteration' = iteration + 1
    /\ pc' = "loop"
    /\ idx' = 1
    /\ gbSnapshot' = global_best_position
    /\ gbWrites' = 0
    /\ UNCHANGED << config, particles, global_best_z_value, global_best_position,
                    plotLog, minSeen, occupiedMin >>

step_all_particles ==
    /\ ~inSearch
    /\ BeginSweep
    /\ lastOp' = "step"
    /\ err' = "none"
    /\ result' = << >>
    /\ searchN' = 0
    /\ sweepsDone' = 0
    /\ UNCHANGED << inSearch, remaining >>

\* variant of the loop body that publishes a personal best that beats the
\* global best at once, inside the sweep
StepLoopEager ==
    /\ pc = "loop"
    /\ idx <= Len(particles)
    /\ \E r \in UnitDraws \X UnitDraws \X UnitDraws \X UnitDraws :
         LET q == StepParticle(particles[idx], global_best_position, r) IN
         /\ particles' = [ particles EXCEPT ![idx] = q ]
         /\ minSeen' = Min2(minSeen, cost_function(q.position))
         /\ occupiedMin' = [ occupiedMin EXCEPT
                               ![idx] = Min2(@, cost_function(q.position)) ]
         /\ IF q.best_z_value < global_best_z_value
            THEN /\ global_best_z_value' = q.best_z_value
                 /\ global_best_position' = q.best_position
            ELSE UNCHANGED << global_best_z_value, global_best_position >>
    /\ idx' = idx + 1
    /\ UNCHANGED << config, iteration, pc, inSearch, remaining, lastOp, err,
                    result, plotLog, searchN, sweepsDone, gbSnapshot, gbWrites >>

\* one pass of the loop of line 73
StepLoop ==
    /\ pc = "loop"
    /\ idx <= Len(particles)
    /\ \E r \in UnitDraws \X UnitDraws \X UnitDraws \X UnitDraws :
         LET q == StepParticle(particles[idx], global_best_position, r) IN
         /\ particles' = [ particles EXCEPT ![idx] = q ]
         /\ minSeen' = Min2(minSeen, cost_function(q.position))
         /\ occupiedMin' = [ occupiedMin EXCEPT
                               ![idx] = Min2(@, cost_function(q.position)) ]
    /\ idx' = idx + 1
    /\ UNCHANGED << config, global_best_z_value, global_best_position, iteration,
                    pc, inSearch, remaining, lastOp, err, result, plotLog,
                    searchN, sweepsDone, gbSnapshot, gbWrites >>

\* variant: the last particle of the list instead of the least one
BestParticleLast(ps) == Len(ps)

\* line 106: index of the first particle with the least best_z_value
\* (sorted is stable)
BestParticle(ps) ==
    CHOOSE i \in 1 .. Len(ps) :
        /\ \A j \in 1 .. Len(ps) : ps[i].best_z_value <= ps[j].best_z_value
        /\ \A j \in 1 .. (i - 1) : ps[j].best_z_value > ps[i].best_z_value

\* lines 105-115: global best update and the plot of the sweep
StepGlobalBest ==
    /\ pc = "loop"
    /\ idx > Len(particles)
    /\ Len(particles) > 0
    /\ LET b == particles[BestParticle(particles)] IN
       IF ImprovesOn(b.best_z_value, global_best_z_value)
       THEN /\ global_best_z_value' = b.best_z_value
            /\ global_best_position' = b.best_position
            /\ gbWrites' = gbWrites + 1
            /\ gbSnapshot' = b.best_position
       ELSE UNCHANGED << global_best_z_value, global_best_position, gbWrites,
                         gbSnapshot >>
    \* "if plot:" tests the module plot, which is always true
    /\ plotLog' = plotLog \cup { "plot_function" }
    /\ pc' = "idle"
    /\ idx' = 0
    /\ remaining' = IF inSearch THEN remaining - 1 ELSE remaining
    /\ sweepsDone' = IF inSearch THEN sweepsDone + 1 ELSE sweepsDone
    /\ UNCHANGED << config, particles, iteration, inSearch, lastOp, err, result,
                    searchN, minSeen, occupiedMin >>

\* line 106 on an empty population: sorted([])[0] raises IndexError, which
\* also ends a search in progress
StepIndexError ==
    /\ pc = "loop"
    /\ Len(particles) = 0
    /\ pc' = "idle"
    /\ idx' = 0
    /\ err' = "IndexError"
    /\ inSearch' = FALSE
    /\ remaining' = 0
    /\ UNCHANGED << config, particles, global_best_z_value, global_best_position,
                    iteration, lastOp, result, plotLog, searchN, sweepsDone,
                    gbSnapshot, gbWrites, minSeen, occupiedMin >>

\* ---- search -------------------------------------------------------------
\* variant whose loop runs one time less
searchShort(n_iterations) ==
    /\ Idle
    /\ iteration + n_iterations <= MaxIter
    /\ inSearch' = TRUE
    /\ remaining' = IF n_iterations > 0 THEN n_iterations - 1 ELSE 0
    /\ searchN' = n_iterations
    /\ sweepsDone' = 0
    /\ lastOp' = "search"
    /\ err' = "none"
    /\ result' = << >>
    /\ UNCHANGED << config, particles, global_best_z_value, global_best_position,
                    iteration, pc, idx, plotLog, gbSnapshot, gbWrites, minSeen,
                    occupiedMin >>

search(n_iterations) ==
    /\ Idle
    /\ iteration + n_iterations <= MaxIter
    /\ inSearch' = TRUE
    /\ remaining' = n_iterations
    /\ searchN' = n_iterations
    /\ sweepsDone' = 0
    /\ lastOp' = "search"
    /\ err' = "none"
    /\ result' = << >>
    /\ UNCHANGED << config, particles, global_best_z_value, global_best_position,
                    iteration, pc, idx, plotLog, gbSnapshot, gbWrites, minSeen,
                    occupiedMin >>

\* line 119
SearchIterate ==
    /\ inSearch
    /\ remaining > 0
    /\ BeginSweep
    /\ UNCHANGED << inSearch, remaining, lastOp, err, result, searchN, sweepsDone >>

\* lines 121-124
SearchReturn ==
    /\ inSearch
    /\ pc = "idle"
    /\ remaining = 0
    /\ plotLog' = IF plot THEN plotLog \cup { "create_animation" } ELSE plotLog
    /\ result' = << global_best_z_value, global_best_position >>
    /\ inSearch' = FALSE
    /\ UNCHANGED << config, particles, global_best_z_value, global_best_position,
                    iteration, pc, idx, remaining, lastOp, err, searchN,
                    sweepsDone, gbSnapshot, gbWrites, minSeen, occupiedMin >>

Next ==
    \/ initialize_swarm
    \/ step_all_particles
    \/ StepLoop
    \/ StepGlobalBest
    \/ StepIndexError
    \/ \E n \in 0 .. MaxIter : search(n)
    \/ SearchIterate
    \/ SearchReturn

Spec == Init /\ [][Next]_vars

\* ======================================================================
\* Properties
\* ======================================================================
InBounds(p, b) == b[1] <= p /\ p <= b[2]

ProperBounds == x_bounds[1] < x_bounds[2] /\ y_bounds[1] < y_bounds[2]

CallDone == pc = "idle" /\ ~inSearch

\* C1 (boundedness): with proper bounds (lower < upper in both dimensions,
\* equal or different between the dimensions), every particle's position has
\* its x within x_bounds and its y within y_bounds, bounds included, after
\* initialize_swarm and after any number of sweeps.
C1_Boundedness ==
    ProperBounds =>
        \A i \in 1 .. Len(particles) :
            /\ InBounds(particles[i].position[1], x_bounds)
            /\ InBounds(particles[i].position[2], y_bounds)

\* C2 (global-best soundness): whenever no sweep is in flight on an
\* initialized swarm, global_best_z_value is the least best_z_value of all
\* particles, is the least cost evaluated at any position of any particle so
\* far, and is the cost at global_best_position.
C2_GlobalBestSound ==
    (pc = "idle" /\ Initialized) =>
        /\ global_best_z_value = SeqMin(BestValues(particles), 1)
        /\ global_best_z_value = minSeen
        /\ cost_function(global_best_position) = global_best_z_value

\* a completed sweep in which the global best was replaced while another
\* particle's personal best stayed above it
C2_Witness ==
    /\ pc = "idle"
    /\ iteration >= 1
    /\ gbWrites = 1
    /\ \E i \in 1 .. Len(particles) :
           particles[i].best_z_value > global_best_z_value

\* C3 (sweep snapshot ordering): while the particle loop of a sweep runs, the
\* global best position every velocity update reads is the one the sweep
\* started with and the global best has not been written; it is written at
\* most once per call, after the loop.
C3_SweepSnapshot ==
    /\ pc = "loop" => /\ global_best_position = gbSnapshot
                      /\ gbWrites = 0
    /\ gbWrites <= 1

\* mid-sweep: the first particle has already improved its personal best below
\* the global best and the second particle has still to be updated
C3_Witness ==
    /\ pc = "loop"
    /\ idx = 2
    /\ Len(particles) = 2
    /\ particles[1].best_z_value < global_best_z_value

\* C4 (NotInitializedError): a step_all_particles or search call on a swarm
\* that holds no particles yet ends with NotInitializedError.
C4_NotInitializedError ==
    (CallDone /\ ~Initialized /\ lastOp \in { "step", "search" }) =>
        err = "NotInitializedError"

\* C5 (ConfigurationError): initialize_swarm with n_particles < 1 or with
\* lower >= upper in either dimension ends with ConfigurationError and
\* creates no particle.
C5_ConfigurationError ==
    (lastOp = "initialize" /\ (n_particles < 1 \/ ~ProperBounds)) =>
        /\ err = "ConfigurationError"
        /\ particles = << >>

\* C6 (re-initialization): initialize_swarm on an initialized swarm fails or
\* resets it, so the population never exceeds n_particles.
C6_NoGrowth == Len(particles) <= n_particles

\* C7 (personal-best soundness): for every particle, best_z_value is the cost
\* at best_position and the least cost over the positions it has occupied; it
\* never increases, and the personal best is replaced only by the new
\* position and only when the cost there is strictly lower.
C7_PersonalBestSound ==
    /\ [](\A i \in 1 .. Len(particles) :
            /\ particles[i].best_z_value = cost_function(particles[i].best_position)
            /\ particles[i].best_z_value = occupiedMin[i])
    /\ [][\A i \in 1 .. Len(particles) :
            /\ particles'[i].best_z_value <= particles[i].best_z_value
            /\ (particles'[i].best_position # particles[i].best_position
                \/ particles'[i].best_z_value # particles[i].best_z_value)
               => /\ cost_function(particles'[i].position) < particles[i].best_z_value
                  /\ particles'[i].best_position = particles'[i].position
                  /\ particles'[i].best_z_value = cost_function(particles'[i].position)
         ]_vars

\* after a sweep one particle sits on a new personal best while another has
\* moved away from its personal best to a worse position
C7_Witness ==
    /\ pc = "idle"
    /\ iteration >= 1
    /\ gbWrites = 1
    /\ \E i \in 1 .. Len(particles) :
           /\ particles[i].position # particles[i].best_position
           /\ cost_function(particles[i].position) > particles[i].best_z_value

\* C8 (search): on an initialized swarm search(n) runs exactly n sweeps, does
\* not fail, and returns the global best as it stands after the last sweep;
\* search(0) changes neither the particles nor the global best.
C8_Search ==
    /\ []((Initialized /\ inSearch) => sweepsDone + remaining = searchN)
    /\ []((Initialized /\ CallDone /\ lastOp = "search") =>
            /\ err = "none"
            /\ sweepsDone = searchN
            /\ result = << global_best_z_value, global_best_position >>)
    /\ [][(Initialized /\ inSearch /\ searchN = 0) =>
            /\ particles' = particles
            /\ global_best_z_value' = global_best_z_value
            /\ global_best_position' = global_best_position ]_vars

\* a search of two sweeps has returned a global best found during the search
C8_Witness ==
    /\ Initialized
    /\ CallDone
    /\ lastOp = "search"
    /\ searchN = 2
    /\ sweepsDone = 2
    /\ gbWrites = 1
    /\ result = << global_best_z_value, global_best_position >>

\* C9 (monotonicity): on an initialized swarm global_best_z_value never
\* increases from one state to the next, hence not across sweeps.
C9_Monotonic ==
    [][Initialized => global_best_z_value' <= global_best_z_value]_vars

\* a second sweep has lowered the global best
C9_Witness ==
    /\ pc = "idle"
    /\ iteration = 2
    /\ gbWrites = 1
    /\ Initialized

\* C10 (no plotting when disabled): with plot = False no function of plot.py
\* is ever called.
C10_NoPlotWhenDisabled == ~plot => plotLog = {}
====
